---- MODULE Spec2Model ----
(***************************************************************************)
(* Model of gaussianprimes.py: the GaussInt entity with its memoized norm  *)
(* and primality, the growable grid kept by ti_no_waste, the coordinate    *)
(* extraction gauss_to_coord_data and the non-incremental count ti.        *)
(*                                                                         *)
(* Radii are integers.  A real radius r behaves as floor(r) in both places *)
(* the code reads it: int(np.sqrt(r)) = int(np.sqrt(floor(r))) for r >= 0, *)
(* and an integer norm is <= r iff it is <= floor(r).                      *)
(***************************************************************************)
EXTENDS Integers, Sequences, FiniteSets, TLC

VARIABLES
    ints,     \* the grid the caller holds: <<>> while it holds none (None)
    sum,      \* the count returned by the caller's last completed call
    lastR,    \* the radius of the caller's last ti_no_waste call: None before, else {r}
    mono,     \* every radius so far was >= 0 and >= the one before it
    last,     \* the caller's last operation: "none", "fresh" (ti_no_waste built the
              \* seed), "grown" (it was given the grid and added rows), "reused" (it
              \* added none), "raised", "coord", "norm", "isprime"
    made,     \* per coordinate: GaussInt objects constructed for the grid
    evals,    \* per coordinate: executions of the body of isprime on grid objects
    z,        \* a free-standing GaussInt (debug_gauss_int)
    ctor,     \* the last GaussInt(a, b) call for z: None before, else
              \* {[a, b, raised]} with the arguments and whether it raised
    tiLog     \* the last two calls of ti: <<[r, s], [r, s]>>, the latest last

vars == <<ints, sum, lastR, mono, last, made, evals, z, ctor, tiLog>>

----------------------------------------------------------------------------
(* Bounds *)

MaxR == 17       \* largest radius a caller passes
MaxCallerR == 10 \* largest radius of a caller that also reads the grid
MaxCoord == 4    \* free-standing entities have a, b in -MaxCoord..MaxCoord

----------------------------------------------------------------------------
(* GaussInt *)

None == {}                      \* an unset memo field; a set one is {v}
Get(s) == CHOOSE v \in s : TRUE

GaussInt(a, b) == [a |-> a, b |-> b, var_isprime |-> None, var_norm |-> None]

\* sympy.isprime on an integer: false below 2, else no proper divisor
sp_isprime(n) == n > 1 /\ \A d \in 2..(n - 1) : n % d # 0

\* a**2 written as a*2
norm_value_doubled(a, b) == a * 2 + b * 2

\* self.a**2 + self.b**2
norm_value(a, b) == a * a + b * b

\* the object after self.norm()
norm_self(e) ==
    IF e.var_norm = None THEN [e EXCEPT !.var_norm = {norm_value(e.a, e.b)}]
    ELSE e

\* the value self.norm() returns
norm(e) == Get(norm_self(e).var_norm)

\* the body of isprime without the branch for the rational primes 3 mod 4
decide_no_inert(e) ==
    IF e.a = 0 /\ e.b = 0 THEN [e EXCEPT !.var_isprime = {FALSE}]
    ELSE IF e.a = 1 /\ e.b = 0 THEN [e EXCEPT !.var_isprime = {FALSE}]
    ELSE IF e.a = 1 /\ e.b = 1 THEN [e EXCEPT !.var_isprime = {TRUE}]
    ELSE [norm_self(e) EXCEPT !.var_isprime = {sp_isprime(norm(e))}]

\* the object after the body of isprime under "if self.var_isprime is None"
decide(e) ==
    IF e.a = 0 /\ e.b = 0 THEN [e EXCEPT !.var_isprime = {FALSE}]
    ELSE IF e.a = 1 /\ e.b = 0 THEN [e EXCEPT !.var_isprime = {FALSE}]
    ELSE IF e.a = 1 /\ e.b = 1 THEN [e EXCEPT !.var_isprime = {TRUE}]
    ELSE IF e.b = 0 /\ (e.a % 4) = 3 /\ sp_isprime(e.a)
         THEN [e EXCEPT !.var_isprime = {TRUE}]
    ELSE [norm_self(e) EXCEPT !.var_isprime = {sp_isprime(norm(e))}]

\* the object after self.isprime()
isprime_self(e) == IF e.var_isprime = None THEN decide(e) ELSE e

\* the value self.isprime() returns
isprime(e) == Get(isprime_self(e).var_isprime)

\* isprime without its "is None" test: the body runs on every call
isprime_runs_always(e) == TRUE

\* whether self.isprime() runs the decision body
isprime_runs(e) == e.var_isprime = None

----------------------------------------------------------------------------
(* ti_no_waste and ti *)

\* int(np.sqrt(r)) for r >= 0
int_sqrt(r) == CHOOSE k \in 0..r : k * k <= r /\ (k + 1) * (k + 1) > r

\* the ranges ending one short: int(np.sqrt(r))
limit_short(r) == int_sqrt(r)

\* the exclusive end of both ranges: int(np.sqrt(r)) + 1
limit(r) == int_sqrt(r) + 1

\* the radius test strict: norm() < r
within_strict(n, r) == n < r

\* the radius test turned round: norm() >= r
within_flipped(n, r) == n >= r

\* the radius test "norm() <= r"
within(n, r) == n <= r

\* the object after "if y.norm() <= r: ... y.isprime()"
\* (and after "(d.norm() <= r) and d.isprime()", which short-circuits alike)
visit(e, r) ==
    IF within(norm(e), r) THEN isprime_self(norm_self(e)) ELSE norm_self(e)

\* what that visit adds to sum
counted(e, r) ==
    IF within(norm(e), r) /\ isprime(norm_self(e)) THEN 1 ELSE 0

\* whether that visit runs the decision body of isprime
visit_runs(e, r) == within(norm(e), r) /\ isprime_runs(norm_self(e))

RECURSIVE SumSeq(_)
SumSeq(s) == IF s = <<>> THEN 0 ELSE Head(s) + SumSeq(Tail(s))

\* ti(r): the double loop over range(0, limit) x range(0, limit)
ti(r) ==
    SumSeq([i \in 1..limit(r) |->
        SumSeq([j \in 1..limit(r) |-> counted(GaussInt(i - 1, j - 1), r)])])

\* "ints is None": the caller holds no grid yet
NoGrid == <<>>

\* the seed grid built when ints is None
Seed ==
    << <<GaussInt(0, 0), GaussInt(0, 1)>>, <<GaussInt(1, 0), GaussInt(1, 1)>> >>

\* the grid ti_no_waste works on
given(g) == IF g = NoGrid THEN Seed ELSE g

\* the positions <<row, column>> (from 1) of the objects of a grid
Cells(g) == UNION {{<<i, j>> : j \in 1..Len(g[i])} : i \in 1..Len(g)}

\* the first pass: every object of the grid visited once
scan(g, r) == [i \in 1..Len(g) |-> [j \in 1..Len(g[i]) |-> visit(g[i][j], r)]]

\* the first pass counting every prime of the grid, the radius test left out
scan_sum_all(g, r) ==
    SumSeq([i \in 1..Len(g) |->
        SumSeq([j \in 1..Len(g[i]) |-> IF isprime(g[i][j]) THEN 1 ELSE 0])])

\* what the first pass adds to sum
scan_sum(g, r) ==
    SumSeq([i \in 1..Len(g) |->
        SumSeq([j \in 1..Len(g[i]) |-> counted(g[i][j], r)])])

\* every row started again from b = 0
min_b_zero(a, orig_min_a, orig_min_b) == 0

\* "min_b = 0" left out for an appended row
min_b_never_zero(a, orig_min_a, orig_min_b) == orig_min_b

\* the first b of row a in the second pass
min_b(a, orig_min_a, orig_min_b) == IF a >= orig_min_a THEN 0 ELSE orig_min_b

\* the second pass constructing GaussInt(b, a) for row a
new_row_swapped(a, r, orig_min_a, orig_min_b) ==
    LET lo == min_b(a, orig_min_a, orig_min_b)
    IN  IF lo >= limit(r) THEN <<>>
        ELSE [k \in 1..(limit(r) - lo) |-> visit(GaussInt(lo + k - 1, a), r)]

\* the objects the second pass constructs for row a, in order of b
new_row(a, r, orig_min_a, orig_min_b) ==
    LET lo == min_b(a, orig_min_a, orig_min_b)
    IN  IF lo >= limit(r) THEN <<>>
        ELSE [k \in 1..(limit(r) - lo) |-> visit(GaussInt(a, lo + k - 1), r)]

\* the coordinates of those objects
new_cells(r, orig_min_a, orig_min_b) ==
    {c \in (0..(limit(r) - 1)) \X (0..(limit(r) - 1)) :
        c[2] >= min_b(c[1], orig_min_a, orig_min_b)}

\* the grid after the second pass: rows below limit get their new objects
\* appended, a row at or beyond orig_min_a starting from the empty row appended
\* for it
extend(g, r, orig_min_a, orig_min_b) ==
    LET rows == IF limit(r) > orig_min_a THEN limit(r) ELSE orig_min_a
    IN  [i \in 1..rows |->
            IF i - 1 < limit(r)
            THEN (IF i - 1 >= orig_min_a THEN <<>> ELSE g[i])
                     \o new_row(i - 1, r, orig_min_a, orig_min_b)
            ELSE g[i]]

\* what the second pass adds to sum
extend_sum(r, orig_min_a, orig_min_b) ==
    SumSeq([i \in 1..limit(r) |->
        SumSeq([k \in 1..Len(new_row(i - 1, r, orig_min_a, orig_min_b)) |->
            counted(GaussInt(i - 1,
                             min_b(i - 1, orig_min_a, orig_min_b) + k - 1), r)])])

\* the coordinates a grid for radii up to MaxR can hold
Coords == (0..int_sqrt(MaxR)) \X (0..int_sqrt(MaxR))

\* how often the first pass runs the decision body on objects at coordinate c
scan_runs(g, r, c) ==
    Cardinality({p \in Cells(g) :
        /\ g[p[1]][p[2]].a = c[1]
        /\ g[p[1]][p[2]].b = c[2]
        /\ visit_runs(g[p[1]][p[2]], r)})

\* how often the second pass runs it on the object it constructs at c
extend_runs(r, orig_min_a, orig_min_b, c) ==
    IF c \in new_cells(r, orig_min_a, orig_min_b)
           /\ visit_runs(GaussInt(c[1], c[2]), r)
    THEN 1 ELSE 0

\* the radii a caller passes; a negative one makes np.sqrt return nan
Radii == (0 - 1)..MaxR
CallerRadii == (0 - 1)..MaxCallerR

\* gauss_to_coord_data without its test: every entry appended
kept_always(cur, prime_only) == TRUE

\* gauss_to_coord_data: the test "not prime_only or cur.isprime()"
kept(cur, prime_only) == (~prime_only) \/ isprime(cur)

RECURSIVE coord_x(_, _)
coord_x(s, prime_only) ==
    IF s = <<>> THEN <<>>
    ELSE (IF kept(Head(s), prime_only) THEN <<Head(s).a>> ELSE <<>>)
             \o coord_x(Tail(s), prime_only)

RECURSIVE coord_y(_, _)
coord_y(s, prime_only) ==
    IF s = <<>> THEN <<>>
    ELSE (IF kept(Head(s), prime_only) THEN <<Head(s).b>> ELSE <<>>)
             \o coord_y(Tail(s), prime_only)

\* the objects of the list after the call: isprime() ran on each iff prime_only
coord_objs(s, prime_only) ==
    [j \in 1..Len(s) |-> IF prime_only THEN isprime_self(s[j]) ELSE s[j]]

----------------------------------------------------------------------------
(* The caller of ti_no_waste: one grid, passed back into every call *)

InitGrid ==
    /\ ints = NoGrid
    /\ sum = 0
    /\ lastR = None
    /\ mono = TRUE
    /\ last = "none"
    /\ made = [c \in Coords |-> 0]
    /\ evals = [c \in Coords |-> 0]

InitEntity == z = GaussInt(0, 0) /\ ctor = None

InitTi == tiLog = <<>>

\* sum, ints = ti_no_waste(r, ints) with r >= 0: the call returns
TiNoWaste(r) ==
    /\ r >= 0
    /\ LET g0 == given(ints)
           orig_min_a == Len(g0)
           orig_min_b == Len(g0[1])
           g1 == scan(g0, r)
           seeded(c) == IF ints = NoGrid /\ c \in Cells(Seed) THEN 1 ELSE 0
       IN  /\ ints' = extend(g1, r, orig_min_a, orig_min_b)
           /\ sum' = scan_sum(g0, r) + extend_sum(r, orig_min_a, orig_min_b)
           /\ made' = [c \in Coords |->
                  made[c] + seeded(<<c[1] + 1, c[2] + 1>>)
                  + (IF c \in new_cells(r, orig_min_a, orig_min_b) THEN 1 ELSE 0)]
           /\ evals' = [c \in Coords |->
                  evals[c] + scan_runs(g0, r, c)
                  + extend_runs(r, orig_min_a, orig_min_b, c)]
    /\ mono' = (mono /\ (lastR = None \/ Get(lastR) <= r))
    /\ lastR' = {r}
    /\ last' = IF ints = NoGrid THEN "fresh"
               ELSE IF limit(r) > Len(ints) THEN "grown" ELSE "reused"
    /\ UNCHANGED <<z, ctor, tiLog>>

\* ti_no_waste(r, ints) with r < 0: the first pass runs (no norm is <= r), then
\* int(np.sqrt(r)) raises on nan before the second pass touches the grid; a
\* seed built inside the call is lost with it
TiNoWasteRaises(r) ==
    /\ r < 0
    /\ ints' = IF ints = NoGrid THEN NoGrid ELSE scan(ints, r)
    /\ evals' = IF ints = NoGrid THEN evals
                ELSE [c \in Coords |-> evals[c] + scan_runs(ints, r, c)]
    /\ mono' = FALSE
    /\ lastR' = {r}
    /\ last' = "raised"
    /\ UNCHANGED <<sum, made, z, ctor, tiLog>>

\* x, y = gauss_to_coord_data(ints[i - 1], prime_only), as plot_primes and
\* debug_gauss_to_coord_data call it on the rows of the grid
CoordData(i, prime_only) ==
    /\ ints # NoGrid
    /\ i \in 1..Len(ints)
    /\ ints' = [ints EXCEPT ![i] = coord_objs(ints[i], prime_only)]
    /\ evals' = [c \in Coords |->
           evals[c] + Cardinality({j \in 1..Len(ints[i]) :
               /\ prime_only
               /\ ints[i][j].a = c[1] /\ ints[i][j].b = c[2]
               /\ isprime_runs(ints[i][j])})]
    /\ last' = "coord"
    /\ UNCHANGED <<sum, lastR, mono, made, z, ctor, tiLog>>

\* ints[i - 1][j - 1].norm() called by the holder of the grid
EntNorm(i, j) ==
    /\ ints # NoGrid
    /\ <<i, j>> \in Cells(ints)
    /\ ints' = [ints EXCEPT ![i][j] = norm_self(@)]
    /\ last' = "norm"
    /\ UNCHANGED <<sum, lastR, mono, made, evals, z, ctor, tiLog>>

\* ints[i - 1][j - 1].isprime() called by the holder of the grid
EntIsPrime(i, j) ==
    /\ ints # NoGrid
    /\ <<i, j>> \in Cells(ints)
    /\ ints' = [ints EXCEPT ![i][j] = isprime_self(@)]
    /\ evals' = [evals EXCEPT ![<<ints[i][j].a, ints[i][j].b>>] =
                     @ + (IF isprime_runs(ints[i][j]) THEN 1 ELSE 0)]
    /\ last' = "isprime"
    /\ UNCHANGED <<sum, lastR, mono, made, z, ctor, tiLog>>

Init == InitGrid /\ InitEntity /\ InitTi

\* the counting engine alone: any sequence of radii on one grid
Next ==
    \/ \E r \in Radii : TiNoWaste(r)
    \/ \E r \in Radii : TiNoWasteRaises(r)

Spec == Init /\ [][Next]_vars

\* a caller that also reads the grid it holds between the calls
CallerNext ==
    \/ \E r \in CallerRadii : TiNoWaste(r)
    \/ \E r \in CallerRadii : TiNoWasteRaises(r)
    \/ \E i \in 1..Len(ints) : \E p \in BOOLEAN : CoordData(i, p)
    \/ \E c \in Cells(ints) : EntNorm(c[1], c[2])
    \/ \E c \in Cells(ints) : EntIsPrime(c[1], c[2])

CallerSpec == Init /\ [][CallerNext]_vars

----------------------------------------------------------------------------
(* Free-standing entities: debug_gauss_int *)

EntityCoords == (0 - MaxCoord)..MaxCoord

EntityInit ==
    /\ InitGrid
    /\ InitTi
    /\ z \in {GaussInt(a, b) : a \in EntityCoords, b \in EntityCoords}
    /\ ctor = None

\* cur.norm()
ZNorm ==
    /\ z' = norm_self(z)
    /\ UNCHANGED <<ints, sum, lastR, mono, last, made, evals,
                 ctor, tiLog>>

\* cur.isprime()
ZIsPrime ==
    /\ z' = isprime_self(z)
    /\ UNCHANGED <<ints, sum, lastR, mono, last, made, evals,
                 ctor, tiLog>>

\* the values a caller may pass to GaussInt: Python ints, and a float and a
\* str as the values that are no int
IntArgs == {[type |-> "int", v |-> n] : n \in EntityCoords}
OtherArgs == {[type |-> "float", v |-> 2], [type |-> "str", v |-> 2]}

\* isinstance(a, int)
isinstance_int(a) == a.type = "int"

\* the test of __init__ with "or" for "and"
init_ok_either(a, b) == isinstance_int(a) \/ isinstance_int(b)

\* __init__ goes on to set the fields: isinstance(a, int) and isinstance(b, int)
init_ok(a, b) == isinstance_int(a) /\ isinstance_int(b)

\* cur = GaussInt(a, b): when __init__ raises, cur keeps the object it had
Construct(a, b) ==
    /\ ctor' = {[a |-> a, b |-> b, raised |-> ~init_ok(a, b)]}
    /\ z' = IF init_ok(a, b) THEN GaussInt(a.v, b.v) ELSE z
    /\ UNCHANGED <<ints, sum, lastR, mono, last, made, evals, tiLog>>

EntityNext ==
    \/ ZNorm
    \/ ZIsPrime
    \/ \E a, b \in IntArgs \cup OtherArgs : Construct(a, b)

EntitySpec == EntityInit /\ [][EntityNext]_vars

----------------------------------------------------------------------------
(* ti asked for several radii *)

\* s = ti(r)
Ti(r) ==
    /\ r >= 0
    /\ tiLog' = IF Len(tiLog) < 2 THEN Append(tiLog, [r |-> r, s |-> ti(r)])
                ELSE <<tiLog[2], [r |-> r, s |-> ti(r)]>>
    /\ UNCHANGED <<ints, sum, lastR, mono, last, made, evals, z,
                 ctor>>

TiNext == \E r \in Radii : Ti(r)

TiSpec == Init /\ [][TiNext]_vars

----------------------------------------------------------------------------
(* Properties *)

\* a call of ti_no_waste has just returned
Returned == last \in {"fresh", "grown", "reused"}

\* the object of grid g at position p
At(g, p) == g[p[1]][p[2]]

\* C1: after a non-decreasing sequence of radii >= 0 fed one by one into
\* ti_no_waste on one grid (the first call without a grid), the count the last
\* call returned equals ti of its radius.
C1_IncrementalEqualsTi ==
    (Returned /\ mono) => sum = ti(Get(lastR))

C1_Witness ==
    /\ last = "grown"
    /\ mono
    /\ Len(ints) >= 4
    /\ sum >= 4

\* C2 as stated: from the seed grid, ti_no_waste(2) returns the count 3.
C2_SeedCountThree ==
    (last = "fresh" /\ lastR = {2}) => sum = 3

\* C2 amended: from the seed grid, ti_no_waste(2) returns the count 1; of the
\* four seed points only (1,1) is prime.
C2_SeedCountOne ==
    (last = "fresh" /\ lastR = {2}) =>
        /\ sum = 1
        /\ \A p \in Cells(ints) :
               (At(ints, p).var_isprime = {TRUE}) <=>
                   (At(ints, p).a = 1 /\ At(ints, p).b = 1)

C2_Witness ==
    /\ last = "fresh"
    /\ lastR = {2}
    /\ Len(ints) = 2

\* the first-quadrant points of norm <= r that isprime calls prime, found in
\* the box 0..r x 0..r, which holds every point of norm <= r
PrimePoints(r) ==
    {c \in (0..r) \X (0..r) :
        norm_value(c[1], c[2]) <= r /\ isprime(GaussInt(c[1], c[2]))}

C4_EvaluatedAtMostOnce ==
    mono => \A c \in Coords : made[c] <= 1 /\ evals[c] <= 1

C4_Witness ==
    /\ mono
    /\ last = "grown"
    /\ Len(ints) >= 4
    /\ \E c \in Coords : c[1] >= 2 /\ made[c] = 1 /\ evals[c] = 1
    /\ \E c \in Coords : made[c] = 1 /\ evals[c] = 0

\* every object of g sits at its own coordinates
CoordsExact(g) ==
    \A p \in Cells(g) : At(g, p).a = p[1] - 1 /\ At(g, p).b = p[2] - 1

\* C5: over any sequence of ti_no_waste calls on one grid no row is removed
\* or shortened, and the object at ints[a][b] has the coordinates (a, b).
C5_RowsNeverShrink ==
    [][/\ Len(ints') >= Len(ints)
       /\ \A i \in 1..Len(ints) : Len(ints'[i]) >= Len(ints[i])
       /\ CoordsExact(ints')]_vars

C5_Witness ==
    /\ last = "grown"
    /\ Len(ints) >= 4
    /\ \A i \in 1..Len(ints) : Len(ints[i]) >= 4

\* the five rules of isprime, read top down
RuleValue(a, b) ==
    CASE a = 0 /\ b = 0 -> FALSE
      [] a = 1 /\ b = 0 -> FALSE
      [] a = 1 /\ b = 1 -> TRUE
      [] b = 0 /\ a % 4 = 3 /\ sp_isprime(a) -> TRUE
      [] OTHER -> sp_isprime(a * a + b * b)

\* C6: isprime decides by the five rules in their order; it is false for
\* (0,0), (1,0), (2,0), (2,2) and true for (1,1), (3,0), (1,2).
C6_RulesInOrder ==
    z.var_isprime # None =>
        /\ z.var_isprime = {RuleValue(z.a, z.b)}
        /\ <<z.a, z.b>> \in {<<0, 0>>, <<1, 0>>, <<2, 0>>, <<2, 2>>}
               => z.var_isprime = {FALSE}
        /\ <<z.a, z.b>> \in {<<1, 1>>, <<3, 0>>, <<1, 2>>}
               => z.var_isprime = {TRUE}

C6_Witness ==
    /\ z.a = 3
    /\ z.b = 0
    /\ z.var_isprime = {TRUE}

\* the associates of a + bi: its products with 1, i, -1, -i
Associates(a, b) == {<<a, b>>, <<0 - b, a>>, <<0 - a, 0 - b>>, <<b, 0 - a>>}

\* C7 as stated: the four associates (a,b), (-b,a), (-a,-b), (b,-a) have the
\* same norm() and the same isprime().
C7_AssociatesAgree ==
    z.var_isprime # None =>
        \A w \in Associates(z.a, z.b) :
            /\ norm(GaussInt(w[1], w[2])) = norm(z)
            /\ isprime(GaussInt(w[1], w[2])) = isprime(z)

\* C8: norm() returns a*a + b*b and isprime() the same boolean on every
\* call; no operation changes a, b, or a memo field once it is set.
C8_MemoStable ==
    [][\A p \in Cells(ints) :
          /\ At(ints', p).a = At(ints, p).a
          /\ At(ints', p).b = At(ints, p).b
          /\ At(ints, p).var_norm # None
                 => At(ints', p).var_norm = At(ints, p).var_norm
          /\ At(ints, p).var_isprime # None
                 => At(ints', p).var_isprime = At(ints, p).var_isprime
          /\ norm(At(ints, p)) = At(ints, p).a * At(ints, p).a
                                     + At(ints, p).b * At(ints, p).b
          /\ norm(At(ints', p)) = norm(At(ints, p))
          /\ isprime(At(ints', p)) = isprime(At(ints, p))]_vars

C8_Witness ==
    /\ last = "isprime"
    /\ \E p \in Cells(ints) :
           /\ At(ints, p).var_isprime # None
           /\ At(ints, p).var_norm = {8}

\* C9 as stated: in the grid ti_no_waste returns every object ints[a][b] is
\* GaussInt(a, b) with its norm and its primality calculated, the decision
\* body having run exactly once on it.
C9_AllCalculated ==
    Returned =>
        \A p \in Cells(ints) :
            /\ At(ints, p).a = p[1] - 1
            /\ At(ints, p).b = p[2] - 1
            /\ At(ints, p).var_norm # None
            /\ At(ints, p).var_isprime # None
            /\ evals[<<p[1] - 1, p[2] - 1>>] = 1

\* C10: ti(r1) <= ti(r2) whenever 0 <= r1 <= r2.
C10_TiMonotone ==
    \A j, k \in 1..Len(tiLog) :
        tiLog[j].r <= tiLog[k].r => tiLog[j].s <= tiLog[k].s

C10_Witness ==
    /\ Len(tiLog) = 2
    /\ tiLog[1].r < tiLog[2].r
    /\ tiLog[1].s < tiLog[2].s
    /\ tiLog[2].r >= 9

\* the entries of a list whose isprime() is true, in the order of the list
PrimesOf(s) == SelectSeq(s, LAMBDA e : isprime(e))

\* x and y are the a values and the b values of the entries of sel, in order
Parallel(xs, ys, sel) ==
    /\ Len(xs) = Len(sel)
    /\ Len(ys) = Len(sel)
    /\ \A k \in 1..Len(sel) : xs[k] = sel[k].a /\ ys[k] = sel[k].b

\* C11: gauss_to_coord_data returns two lists of equal length: with
\* prime_only the a and b of exactly the entries whose isprime() is true, in
\* their order, without it the a and b of every entry; the list given is not
\* reordered, shortened or extended.
C11_CoordData ==
    [][/\ \A i \in 1..Len(ints) :
             /\ Parallel(coord_x(ints[i], TRUE), coord_y(ints[i], TRUE),
                         PrimesOf(ints[i]))
             /\ Parallel(coord_x(ints[i], FALSE), coord_y(ints[i], FALSE),
                         ints[i])
       /\ Parallel(coord_x(Seed[1] \o Seed[2], TRUE),
                   coord_y(Seed[1] \o Seed[2], TRUE), <<GaussInt(1, 1)>>)
       /\ last' = "coord" =>
             /\ Len(ints') = Len(ints)
             /\ \A i \in 1..Len(ints) :
                    /\ Len(ints'[i]) = Len(ints[i])
                    /\ \A j \in 1..Len(ints[i]) :
                           /\ ints'[i][j].a = ints[i][j].a
                           /\ ints'[i][j].b = ints[i][j].b]_vars

C11_Witness ==
    /\ last = "coord"
    /\ \E i \in 1..Len(ints) :
           /\ Len(ints[i]) >= 3
           /\ Len(coord_x(ints[i], TRUE)) >= 2
           /\ Len(coord_x(ints[i], TRUE)) < Len(ints[i])
           /\ \A j \in 1..Len(ints[i]) : ints[i][j].var_isprime # None

\* C12: GaussInt(a, b) raises, creating no entity, when a or b is not an
\* integer; with two integers it succeeds, giving an entity with a, b as
\* passed and var_norm and var_isprime unset.
C12_Construction ==
    [][ctor' # ctor =>
          LET c == Get(ctor')
          IN  IF c.a.type = "int" /\ c.b.type = "int"
              THEN /\ ~c.raised
                   /\ z' = [a |-> c.a.v, b |-> c.b.v,
                            var_isprime |-> {}, var_norm |-> {}]
              ELSE /\ c.raised
                   /\ z' = z]_vars

C12_Witness ==
    /\ ctor # None
    /\ Get(ctor).raised
    /\ Get(ctor).a.type = "int"
    /\ Get(ctor).b.type = "float"
    /\ z.var_isprime = {TRUE}

\* C13 as stated: a first-quadrant point that is neither zero nor a unit has
\* isprime() true iff its norm is a rational prime or it lies on either axis
\* at a rational prime p with p mod 4 = 3; zero, (1,0) and (0,1) are not prime.
C13_FirstQuadrantPrimes ==
    (z.var_isprime # None /\ z.a >= 0 /\ z.b >= 0) =>
        IF <<z.a, z.b>> \in {<<0, 0>>, <<1, 0>>, <<0, 1>>}
        THEN z.var_isprime = {FALSE}
        ELSE z.var_isprime =
                 {\/ sp_isprime(z.a * z.a + z.b * z.b)
                  \/ (z.b = 0 /\ z.a % 4 = 3 /\ sp_isprime(z.a))
                  \/ (z.a = 0 /\ z.b % 4 = 3 /\ sp_isprime(z.b))}

\* the coordinates of the positions ints' has and ints has not
Added == {<<p[1] - 1, p[2] - 1>> : p \in Cells(ints') \ Cells(ints)}

\* C14: a ti_no_waste call given a grid appends to a row it finds from that
\* row's length on, so no object of the grid is constructed again, replaced or
\* appended twice; a call whose limit is within the grid constructs nothing
\* and leaves the shape and the objects alone, memo fields apart.
C14_AppendAtRowEnd ==
    [][(ints # NoGrid /\ last' \in {"grown", "reused"}) =>
          /\ \A p \in Cells(ints) :
                 /\ p \in Cells(ints')
                 /\ At(ints', p).a = At(ints, p).a
                 /\ At(ints', p).b = At(ints, p).b
                 /\ At(ints, p).var_norm \subseteq At(ints', p).var_norm
                 /\ At(ints, p).var_isprime \subseteq At(ints', p).var_isprime
          /\ \A i \in 1..Len(ints) :
                 \A j \in (Len(ints[i]) + 1)..Len(ints'[i]) :
                     ints'[i][j].a = i - 1 /\ ints'[i][j].b = j - 1
          /\ \A c \in Coords :
                 made'[c] = made[c] + (IF c \in Added THEN 1 ELSE 0)
          /\ limit(Get(lastR')) <= Len(ints) =>
                 /\ made' = made
                 /\ Cells(ints') = Cells(ints)]_vars

C14_Witness ==
    /\ last = "grown"
    /\ Len(ints) >= 4
    /\ \A c \in (0..3) \X (0..3) : made[c] = 1
    /\ Len(ints[1]) = Len(ints)

\* C15 as stated: for r < 0 ti_no_waste returns the count 0 and does not end
\* in an error.
C15_NegativeReturnsZero ==
    (lastR # None /\ Get(lastR) < 0) => (Returned /\ sum = 0)

\* C16: after any sequence of ti_no_waste calls from the seed grid, in any
\* order of radii, the grid is a square of side N >= 2, N the larger of the
\* side the call found (2 for the seed) and the call's limit, hence the larger
\* of 2 and every limit so far; so len(ints[0]), taken as the first b of every
\* row the call finds, is the length of each of those rows.
C16_GridSquare ==
    [][last' \in {"fresh", "grown", "reused"} =>
          LET g == given(ints)
              lim == limit(Get(lastR'))
          IN  /\ Len(ints') >= 2
              /\ \A i \in 1..Len(ints') : Len(ints'[i]) = Len(ints')
              /\ Len(ints') = IF lim > Len(g) THEN lim ELSE Len(g)
              /\ \A i \in 1..Len(g) : Len(g[i]) = Len(g[1])]_vars

C16_Witness ==
    /\ last = "reused"
    /\ ~mono
    /\ Len(ints) >= 4
    /\ limit(Get(lastR)) < Len(ints)
    /\ \A i \in 1..Len(ints) : Len(ints[i]) = Len(ints)

\* C17: whatever radii >= 0 the grid has seen, in whatever order, every
\* ti_no_waste call returns ti of its own radius.
C17_EveryCallEqualsTi ==
    Returned => sum = ti(Get(lastR))

C17_Witness ==
    /\ last = "reused"
    /\ sum >= 1
    /\ \E p \in Cells(ints) :
           /\ At(ints, p).var_isprime = {TRUE}
           /\ Get(At(ints, p).var_norm) > Get(lastR)

====
